---- MODULE Spec2Model ----
(***************************************************************************)
(* Model of pubmed_enhanced_mcp_server.py: the retrying request executor,  *)
(* the five exposed tools (search_pubmed, get_mesh_terms, get_pubmed_count,*)
(* format_paper_details, pico_search) and the parsers they use.            *)
(*                                                                         *)
(* One invocation is one action.  The upstream service is the environment: *)
(* an invocation receives `env`, the sequence of replies the service gives *)
(* to the requests of that invocation, in the order they are issued.  A    *)
(* reply says how each transport attempt ends and what body a successful   *)
(* attempt carries.  Everything observable that the code does (transport   *)
(* calls, sleeps, log records) is appended to `trace`.                     *)
(*                                                                         *)
(* Python str values are TLA+ strings, except in the MeSH text parser,     *)
(* which works on characters: there a text is a sequence of one-character  *)
(* strings.                                                                *)
(***************************************************************************)
EXTENDS Integers, Sequences, FiniteSets, TLC

VARIABLES
  pc,      \* "idle" before the invocation, "returned" after it
  op,      \* name of the function that was invoked
  args,    \* its arguments
  ret,     \* the value it returned (tagged with its Python type)
  raised,  \* the exception it let through to its caller (NoExc if none)
  trace,   \* transport calls, sleeps and log records, in order
  calls,   \* number of transport calls (requests.get) made
  upstream \* the replies the upstream service had for this invocation

vars == <<pc, op, args, ret, raised, trace, calls, upstream>>

----------------------------------------------------------------------------
(* Bounds of the model *)

MaxRetries == 4   \* make_request_with_retry is explored for max_retries 0..MaxRetries
MaxWait    == 2   \* ... and wait_time 1..MaxWait (seconds)
MaxTerms   == 2   \* longest term / keyword list
MaxIds     == 2   \* longest identifier list in a search reply
MaxCount   == 1   \* largest count the upstream service reports
MaxFaults  == 1   \* most faulty replies within one pico_search invocation
MaxLen     == 4   \* most chunks in a MeSH text

(* Program constants *)

DefaultMaxRetries == 3
DefaultWaitTime   == 1
DefaultNumResults == 10

BASE_URL == "https://eutils.ncbi.nlm.nih.gov/entrez/eutils"

----------------------------------------------------------------------------
(* Python values *)

None  == [type |-> "none"]
NoExc == [type |-> "none", msg |-> ""]

PyDict(d)  == [type |-> "dict", value |-> d]
PyList(l)  == [type |-> "list", items |-> l]
PyResponse(body) == [type |-> "response", body |-> body]

\* str.join
RECURSIVE join(_, _)
join(sep, parts) ==
  IF parts = <<>> THEN ""
  ELSE IF Len(parts) = 1 THEN parts[1]
  ELSE parts[1] \o sep \o join(sep, Tail(parts))

\* `body` with its parameter bound to the value of v, evaluated once
Bind(v, body(_)) == CHOOSE r \in {body(x) : x \in {v}} : TRUE

\* list.reverse
reverse(l) == [k \in 1..Len(l) |-> l[Len(l) + 1 - k]]

----------------------------------------------------------------------------
(* The environment: replies of the upstream service.                       *)
(*   att  : how the successive transport attempts of the request end; an   *)
(*          attempt beyond Len(att) succeeds.                              *)
(*   body : the body carried by a successful attempt.                      *)

AttemptOutcomes == {"ok", "conn_error", "http_error"}

\* body formats: "json", "xml", "text", "garbage" (parses as nothing)
Body(fmt, hasResult, ids, count, text) ==
  [fmt |-> fmt, hasResult |-> hasResult, ids |-> ids, count |-> count, text |-> text]

Garbage == Body("garbage", FALSE, <<>>, <<>>, <<>>)

Reply(att, body) == [att |-> att, body |-> body]

DefaultReply == Reply(<<>>, Garbage)

\* observable events
GetEvent(url, params) == [ev |-> "get", url |-> url, params |-> params]
SleepEvent(secs)      == [ev |-> "sleep", secs |-> secs]
\* a log record: the fixed text of the message and the value formatted into it
LogEvent(level, text, detail) ==
  [ev |-> "log", level |-> level, text |-> text, detail |-> detail]

\* the state threaded through one invocation
Start(env) == [env |-> env, trace |-> <<>>, calls |-> 0]

Emit(s, e) == [s EXCEPT !.trace = Append(@, e)]

\* result of an internal call: the exception raised (NoExc if it returned),
\* the value returned, and the state afterwards
Returned(v, s) == [exc |-> NoExc, val |-> v, s |-> s]
Raised(e, s)   == [exc |-> e, val |-> None, s |-> s]

\* requests.get followed by raise_for_status, attempt number k of a request
transport(reply, k) ==
  IF k <= Len(reply.att) THEN reply.att[k] ELSE "ok"

RequestException(outcome) ==
  IF outcome = "http_error"
  THEN [type |-> "HTTPError", msg |-> "http_error"]
  ELSE [type |-> "ConnectionError", msg |-> "conn_error"]

----------------------------------------------------------------------------
(* make_request_with_retry *)

\* retry_loop with the wait never doubled
RECURSIVE retry_loop_constant_wait(_, _, _, _, _, _, _)
retry_loop_constant_wait(i, wait_time, max_retries, url, params, reply, s) ==
  IF i >= max_retries
  THEN Returned(None, s)
  ELSE
    LET s1 == [Emit(s, GetEvent(url, params)) EXCEPT !.calls = @ + 1]
        outcome == transport(reply, i + 1)
    IN  IF outcome = "ok"
        THEN Returned(PyResponse(reply.body), s1)
        ELSE
          LET s2 == Emit(s1, LogEvent("error", "Request failed: ",
                                    RequestException(outcome).msg))
          IN  IF i < max_retries - 1
              THEN retry_loop_constant_wait(i + 1, wait_time, max_retries, url,
                     params, reply, Emit(s2, SleepEvent(wait_time)))
              ELSE Raised(RequestException(outcome), s2)

RECURSIVE retry_loop(_, _, _, _, _, _, _)
retry_loop(i, wait_time, max_retries, url, params, reply, s) ==
  IF i >= max_retries
  THEN Returned(None, s)                \* range exhausted: falls off the end
  ELSE
    LET s1 == [Emit(s, GetEvent(url, params)) EXCEPT !.calls = @ + 1]
        outcome == transport(reply, i + 1)
    IN  IF outcome = "ok"
        THEN Returned(PyResponse(reply.body), s1)
        ELSE
          LET s2 == Emit(s1, LogEvent("error", "Request failed: ",
                                    RequestException(outcome).msg))
          IN  IF i < max_retries - 1
              THEN retry_loop(i + 1, wait_time * 2, max_retries, url, params,
                              reply, Emit(s2, SleepEvent(wait_time)))
              ELSE Raised(RequestException(outcome), s2)

\* make_request_with_retry looping once too often
make_request_with_retry_extra_attempt(s, url, params, max_retries, wait_time) ==
  LET reply == IF s.env = <<>> THEN DefaultReply ELSE Head(s.env)
      rest  == IF s.env = <<>> THEN <<>> ELSE Tail(s.env)
  IN  retry_loop(0, wait_time, max_retries + 1, url, params, reply,
                 [s EXCEPT !.env = rest])

make_request_with_retry(s, url, params, max_retries, wait_time) ==
  LET reply == IF s.env = <<>> THEN DefaultReply ELSE Head(s.env)
      rest  == IF s.env = <<>> THEN <<>> ELSE Tail(s.env)
  IN  retry_loop(0, wait_time, max_retries, url, params, reply,
                 [s EXCEPT !.env = rest])

----------------------------------------------------------------------------
(* Decoding a response *)

\* response.json(): None has no such method; a body that is not JSON does
\* not decode
response_json(response) ==
  IF response.type # "response"
  THEN [exc |-> [type |-> "AttributeError",
                 msg |-> "'NoneType' object has no attribute 'json'"],
        val |-> None]
  ELSE IF response.body.fmt # "json"
  THEN [exc |-> [type |-> "JSONDecodeError", msg |-> "Expecting value"],
        val |-> None]
  ELSE [exc |-> NoExc, val |-> response.body]

\* ET.fromstring(response.text) / ET.fromstring(response.content)
ET_fromstring(response) ==
  IF response.type # "response"
  THEN [exc |-> [type |-> "AttributeError",
                 msg |-> "'NoneType' object has no attribute 'text'"],
        val |-> None]
  ELSE IF response.body.fmt # "xml"
  THEN [exc |-> [type |-> "ParseError", msg |-> "syntax error"],
        val |-> None]
  ELSE [exc |-> NoExc, val |-> response.body]

\* One record per PubmedArticle element of the document, in document order.
\* Only the identifier and the link derived from it are modelled; the other
\* fields are text copied from the element and take no part in control flow.
parse_article_details(response) ==
  LET tree == ET_fromstring(response)
  IN  IF tree.exc # NoExc THEN tree
      ELSE [exc |-> NoExc,
            val |-> [k \in 1..Len(tree.val.ids) |->
                       [pubmed_id |-> tree.val.ids[k],
                        link |-> "https://pubmed.ncbi.nlm.nih.gov/"
                                   \o tree.val.ids[k] \o "/"]]]

extract_count_from_xml(response) ==
  LET tree == ET_fromstring(response)
  IN  IF tree.exc # NoExc THEN tree
      ELSE IF tree.val.count # <<>>
      THEN [exc |-> NoExc, val |-> tree.val.count[1]]
      ELSE [exc |-> [type |-> "ValueError",
                     msg |-> "Count element not found in the XML response"],
            val |-> None]

----------------------------------------------------------------------------
(* format_paper_details *)

format_paper_details_try(s, pubmed_ids) ==
  IF pubmed_ids = <<>> THEN Returned(PyList(<<>>), s)
  ELSE
    LET fetch_url == BASE_URL \o "/efetch.fcgi"
        fetch_params == [db |-> "pubmed", id |-> join(",", pubmed_ids),
                         retmode |-> "xml"]
    IN  Bind(make_request_with_retry(s, fetch_url, fetch_params,
                                     DefaultMaxRetries, DefaultWaitTime),
             LAMBDA fetch :
          IF fetch.exc # NoExc THEN fetch
          ELSE LET parsed == parse_article_details(fetch.val)
               IN  IF parsed.exc # NoExc THEN Raised(parsed.exc, fetch.s)
                   ELSE Returned(PyList(parsed.val), fetch.s))

format_paper_details(s, pubmed_ids) ==
  Bind(format_paper_details_try(s, pubmed_ids), LAMBDA r :
    IF r.exc = NoExc THEN r
    ELSE Returned(PyList(<<>>),
                  Emit(r.s, LogEvent("error",
                         "Error in format_paper_details: ", r.exc.msg))))

----------------------------------------------------------------------------
(* search_pubmed *)

\* truth value of an Optional[str]: <<>> is None, <<x>> is the string x
Truthy(opt) == opt # <<>> /\ opt[1] # ""

\* search_query with the keyword clause added even for an empty list
search_query_always_keywords(keywords, journal) ==
  LET keyword_part == <<"(" \o join(" OR ", keywords) \o ")">>
      journal_part == IF Truthy(journal)
                      THEN <<journal[1] \o "[Journal]">>
                      ELSE <<>>
      query_parts == keyword_part \o journal_part
  IN  IF query_parts # <<>> THEN join(" AND ", query_parts) ELSE ""

search_query(keywords, journal) ==
  LET keyword_part == IF keywords # <<>>
                      THEN <<"(" \o join(" OR ", keywords) \o ")">>
                      ELSE <<>>
      journal_part == IF Truthy(journal)
                      THEN <<journal[1] \o "[Journal]">>
                      ELSE <<>>
      query_parts == keyword_part \o journal_part
  IN  IF query_parts # <<>> THEN join(" AND ", query_parts) ELSE ""

sort_param_of(sort_by) ==
  IF sort_by = "date_desc" THEN "pub date"
  ELSE IF sort_by = "date_asc" THEN "pub date"
  ELSE ""

search_params_of(query, num_results, sort_param) ==
  IF sort_param # ""
  THEN [db |-> "pubmed", term |-> query, retmax |-> num_results,
        retmode |-> "json", sort |-> sort_param]
  ELSE [db |-> "pubmed", term |-> query, retmax |-> num_results,
        retmode |-> "json"]

\* fetch_order reversing for both date orders
fetch_order_any_date(idlist, sort_by, sort_param) ==
  IF sort_param # "" THEN reverse(idlist) ELSE idlist

\* the identifier list handed to format_paper_details
fetch_order(idlist, sort_by, sort_param) ==
  IF sort_by = "date_asc" /\ sort_param # "" THEN reverse(idlist) ELSE idlist

search_pubmed_try(s, keywords, journal, num_results, sort_by) ==
  LET query == search_query(keywords, journal)
  IN
  IF query = ""
  THEN Returned(PyDict([success |-> FALSE,
                        error |-> "No search parameters provided. Please specify keywords or journal.",
                        results |-> <<>>]), s)
  ELSE
    LET s1 == Emit(s, LogEvent("info", "Search query: ", query))
        sort_param == sort_param_of(sort_by)
        search_url == BASE_URL \o "/esearch.fcgi"
    IN
    Bind(make_request_with_retry(s1, search_url,
                                 search_params_of(query, num_results, sort_param),
                                 DefaultMaxRetries, DefaultWaitTime),
         LAMBDA search :
      IF search.exc # NoExc THEN search
      ELSE
        LET search_data == response_json(search.val)
        IN
        IF search_data.exc # NoExc THEN Raised(search_data.exc, search.s)
        ELSE
          LET idlist == IF search_data.val.hasResult THEN search_data.val.ids
                        ELSE <<>>
              pmids == fetch_order(idlist, sort_by, sort_param)
              total == IF search_data.val.hasResult /\ search_data.val.count # <<>>
                       THEN search_data.val.count[1] ELSE 0
          IN  Bind(format_paper_details(search.s, pmids), LAMBDA formatted :
                Returned(PyDict([success |-> TRUE,
                                 results |-> formatted.val.items,
                                 total_results |-> total]), formatted.s)))

search_pubmed(s, keywords, journal, num_results, sort_by) ==
  Bind(search_pubmed_try(s, keywords, journal, num_results, sort_by), LAMBDA r :
    IF r.exc = NoExc THEN r
    ELSE Returned(PyDict([success |-> FALSE, error |-> r.exc.msg,
                          results |-> <<>>]),
                  Emit(r.s, LogEvent("error",
                         "Error in search_pubmed: ", r.exc.msg))))

----------------------------------------------------------------------------
(* Python dict operations; a dict is a function from its keys *)

EmptyDict == <<>>

\* dict_set keeping the value a key already has (dict.setdefault)
dict_set_keep_first(d, k, v) ==
  [x \in DOMAIN d \cup {k} |-> IF x \in DOMAIN d THEN d[x] ELSE v]

dict_set(d, k, v) ==
  [x \in DOMAIN d \cup {k} |-> IF x = k THEN v ELSE d[x]]

dict_get(d, k, default) == IF k \in DOMAIN d THEN d[k] ELSE default

----------------------------------------------------------------------------
(* get_pubmed_count *)

\* the for loop over search_terms; k is the position of the next term
RECURSIVE count_loop(_, _, _, _)
count_loop(s, search_terms, k, counts) ==
  IF k > Len(search_terms) THEN Returned(counts, s)
  ELSE
    LET term == search_terms[k]
        params == [db |-> "pubmed", term |-> term, retmode |-> "xml"]
    IN  Bind(make_request_with_retry(s, BASE_URL \o "/esearch.fcgi", params,
                                     DefaultMaxRetries, DefaultWaitTime),
             LAMBDA response :
          IF response.exc # NoExc THEN response
          ELSE LET count == extract_count_from_xml(response.val)
               IN  IF count.exc # NoExc THEN Raised(count.exc, response.s)
                   ELSE count_loop(response.s, search_terms, k + 1,
                                   dict_set(counts, term, count.val)))

get_pubmed_count_try(s, search_terms) ==
  IF search_terms = <<>>
  THEN Returned(PyDict([success |-> FALSE,
                        error |-> "No search terms provided",
                        counts |-> EmptyDict]), s)
  ELSE
    Bind(count_loop(s, search_terms, 1, EmptyDict), LAMBDA r :
      IF r.exc # NoExc THEN r
      ELSE Returned(PyDict([success |-> TRUE, counts |-> r.val]), r.s))

get_pubmed_count(s, search_terms) ==
  Bind(get_pubmed_count_try(s, search_terms), LAMBDA r :
    IF r.exc = NoExc THEN r
    ELSE Returned(PyDict([success |-> FALSE, error |-> r.exc.msg,
                          counts |-> EmptyDict]),
                  Emit(r.s, LogEvent("error",
                         "Error in get_pubmed_count: ", r.exc.msg))))

----------------------------------------------------------------------------
(* pico_search *)

\* [f"({term})" for term in terms]
parenthesized(terms) == [k \in 1..Len(terms) |-> "(" \o terms[k] \o ")"]

\* count_result.get("counts", {}).get(query, 0)
count_or_zero(count_result, query) ==
  dict_get(dict_get(count_result.value, "counts", EmptyDict), query, 0)

\* returns the pair (query, count) in val
process_element(s, element_name, terms) ==
  IF terms = <<>> THEN Returned([query |-> "", count |-> 0], s)
  ELSE
    LET element_query == join(" OR ", parenthesized(terms))
        full_query == "(" \o element_query \o ")"
    IN  Bind(get_pubmed_count(s, <<full_query>>), LAMBDA count_result :
          Returned([query |-> full_query,
                    count |-> count_or_zero(count_result.val, full_query)],
                   count_result.s))

\* combination computed whether it applies or not
combination_always(acc, applies, key, query) ==
  Bind(get_pubmed_count(acc.s, <<query>>), LAMBDA count_result :
    [s |-> count_result.s,
     combinations |->
       dict_set(acc.combinations, key,
                [query |-> query,
                 count |-> count_or_zero(count_result.val, query)])])

\* one combination: the count request for `query`, stored under `key` when
\* the combination applies
combination(acc, applies, key, query) ==
  IF ~applies THEN acc
  ELSE
    Bind(get_pubmed_count(acc.s, <<query>>), LAMBDA count_result :
      [s |-> count_result.s,
       combinations |->
         dict_set(acc.combinations, key,
                  [query |-> query,
                   count |-> count_or_zero(count_result.val, query)])])

pico_search_try(s, p_terms, i_terms, c_terms, o_terms) ==
  IF Len(p_terms) < 1 \/ Len(i_terms) < 1
  THEN Returned(PyDict([success |-> FALSE,
                        error |-> "At least P (Population) and I (Intervention) terms are required with multiple synonyms recommended.",
                        results |-> EmptyDict]), s)
  ELSE
    Bind(process_element(s, "Population", p_terms), LAMBDA p :
    Bind(process_element(p.s, "Intervention", i_terms), LAMBDA i :
    Bind(process_element(i.s, "Comparison", c_terms), LAMBDA c :
    Bind(process_element(c.s, "Outcome", o_terms), LAMBDA o :
      LET pi == [P |-> p.val, I |-> i.val]
          pic == IF c_terms # <<>> THEN dict_set(pi, "C", c.val) ELSE pi
          individual == IF o_terms # <<>> THEN dict_set(pic, "O", o.val) ELSE pic
          pi_query == p.val.query \o " AND " \o i.val.query
          pic_query == p.val.query \o " AND " \o i.val.query
                         \o " AND " \o c.val.query
          pio_query == p.val.query \o " AND " \o i.val.query
                         \o " AND " \o o.val.query
          pico_query == p.val.query \o " AND " \o i.val.query
                         \o " AND " \o c.val.query \o " AND " \o o.val.query
      IN
      Bind(combination([s |-> o.s, combinations |-> EmptyDict],
                       TRUE, "P_AND_I", pi_query), LAMBDA k1 :
      Bind(combination(k1, c_terms # <<>>, "P_AND_I_AND_C", pic_query), LAMBDA k2 :
      Bind(combination(k2, o_terms # <<>>, "P_AND_I_AND_O", pio_query), LAMBDA k3 :
      Bind(combination(k3, c_terms # <<>> /\ o_terms # <<>>,
                       "P_AND_I_AND_C_AND_O", pico_query), LAMBDA k4 :
        Returned(PyDict([success |-> TRUE,
                         results |-> [individual |-> individual,
                                      combinations |-> k4.combinations]]),
                 k4.s)))))))))

pico_search(s, p_terms, i_terms, c_terms, o_terms) ==
  Bind(pico_search_try(s, p_terms, i_terms, c_terms, o_terms), LAMBDA r :
    IF r.exc = NoExc THEN r
    ELSE Returned(PyDict([success |-> FALSE, error |-> r.exc.msg,
                          results |-> EmptyDict]),
                  Emit(r.s, LogEvent("error",
                         "Error in pico_search: ", r.exc.msg))))

----------------------------------------------------------------------------
(* parse_mesh_text_response; a text is a sequence of characters *)

Digits     == {"0", "1", "2", "3", "4", "5", "6", "7", "8", "9"}
Whitespace == {" ", "\t", "\n", "\r"}

\* text.split('\n')
RECURSIVE split_lines(_)
split_lines(text) ==
  IF \A k \in 1..Len(text) : text[k] # "\n" THEN <<text>>
  ELSE LET k == CHOOSE k \in 1..Len(text) :
                  text[k] = "\n" /\ \A j \in 1..(k - 1) : text[j] # "\n"
       IN  <<SubSeq(text, 1, k - 1)>> \o split_lines(SubSeq(text, k + 1, Len(text)))

\* number of leading digits
RECURSIVE digit_run(_)
digit_run(t) ==
  IF t # <<>> /\ t[1] \in Digits THEN 1 + digit_run(Tail(t)) ELSE 0

\* re.match(r'^\d+:', line)
entry_start(line) ==
  LET n == digit_run(line)
  IN  n >= 1 /\ Len(line) > n /\ line[n + 1] = ":"

\* the characters of t before its first newline
RECURSIVE first_line(_)
first_line(t) ==
  IF t = <<>> \/ t[1] = "\n" THEN <<>> ELSE <<t[1]>> \o first_line(Tail(t))

\* pattern_search with (.*?) for (.+?): the group may be empty
pattern_search_allow_empty(entry) ==
  LET n == digit_run(entry)
  IN  IF /\ n >= 1
         /\ Len(entry) >= n + 2
         /\ entry[n + 1] = ":"
         /\ entry[n + 2] = " "
      THEN <<first_line(SubSeq(entry, n + 3, Len(entry)))>>
      ELSE <<>>

\* re.search(r'^\d+: (.+?)(?=\n|$)', entry): <<group 1>> on a match, <<>> on
\* none.  The pattern is anchored at the start of the entry, "." matches no
\* newline and the group must hold at least one character, so the group is
\* the non-empty rest of the first line after "<digits>: ".
pattern_search(entry) ==
  LET n == digit_run(entry)
  IN  IF /\ n >= 1
         /\ Len(entry) >= n + 3
         /\ entry[n + 1] = ":"
         /\ entry[n + 2] = " "
         /\ entry[n + 3] # "\n"
      THEN <<first_line(SubSeq(entry, n + 3, Len(entry)))>>
      ELSE <<>>

RECURSIVE lstrip(_)
lstrip(t) == IF t # <<>> /\ t[1] \in Whitespace THEN lstrip(Tail(t)) ELSE t

RECURSIVE rstrip(_)
rstrip(t) ==
  IF t # <<>> /\ t[Len(t)] \in Whitespace
  THEN rstrip(SubSeq(t, 1, Len(t) - 1)) ELSE t

\* str.strip
strip(t) == rstrip(lstrip(t))

\* "if current_entry: match = ...; if match: entries.append(...)"
flush(entries, current_entry) ==
  IF current_entry = <<>> THEN entries
  ELSE LET match == pattern_search(current_entry)
       IN  IF match # <<>> THEN Append(entries, strip(match[1])) ELSE entries

RECURSIVE mesh_loop(_, _, _, _)
mesh_loop(lines, k, entries, current_entry) ==
  IF k > Len(lines) THEN flush(entries, current_entry)
  ELSE IF entry_start(lines[k])
  THEN mesh_loop(lines, k + 1, flush(entries, current_entry), lines[k])
  ELSE mesh_loop(lines, k + 1, entries, current_entry \o <<"\n">> \o lines[k])

parse_mesh_text_response(text) == mesh_loop(split_lines(text), 1, <<>>, <<>>)

----------------------------------------------------------------------------
(* get_mesh_terms *)

\* response.text of the text-mode fetch
response_text(response) ==
  IF response.type # "response"
  THEN [exc |-> [type |-> "AttributeError",
                 msg |-> "'NoneType' object has no attribute 'text'"],
        val |-> None]
  ELSE [exc |-> NoExc, val |-> response.body.text]

get_mesh_terms_try(s, search_word) ==
  LET search_params == [db |-> "mesh", term |-> search_word, retmode |-> "xml"]
  IN
  Bind(make_request_with_retry(s, BASE_URL \o "/esearch.fcgi", search_params,
                               DefaultMaxRetries, DefaultWaitTime),
       LAMBDA search :
    IF search.exc # NoExc THEN search
    ELSE
      LET tree == ET_fromstring(search.val)
      IN
      IF tree.exc # NoExc
      THEN Raised(tree.exc,
                  IF tree.exc.type = "ParseError"
                  THEN Emit(search.s, LogEvent("error",
                         "XML Parse Error in search response: ", tree.exc.msg))
                  ELSE search.s)
      ELSE
        LET mesh_ids == tree.val.ids
        IN
        IF mesh_ids = <<>>
        THEN Returned(PyDict([success |-> TRUE, mesh_terms |-> <<>>]),
                      Emit(search.s, LogEvent("info",
                             "No MeSH IDs found for term: ", search_word)))
        ELSE
          LET fetch_params == [db |-> "mesh", id |-> join(",", mesh_ids),
                               retmode |-> "text"]
          IN
          Bind(make_request_with_retry(search.s, BASE_URL \o "/efetch.fcgi",
                                       fetch_params, DefaultMaxRetries,
                                       DefaultWaitTime),
               LAMBDA fetch :
            IF fetch.exc # NoExc THEN fetch
            ELSE
              LET text == response_text(fetch.val)
              IN  IF text.exc # NoExc THEN Raised(text.exc, fetch.s)
                  ELSE Returned(PyDict([success |-> TRUE,
                                        mesh_terms |->
                                          parse_mesh_text_response(text.val)]),
                                fetch.s)))

get_mesh_terms(s, search_word) ==
  Bind(get_mesh_terms_try(s, search_word), LAMBDA r :
    IF r.exc = NoExc THEN r
    ELSE Returned(PyDict([success |-> FALSE, error |-> r.exc.msg,
                          mesh_terms |-> <<>>]),
                  Emit(r.s, LogEvent("error",
                         "Error in get_mesh_terms: ", r.exc.msg))))

----------------------------------------------------------------------------
(* Inputs and environments the invocations are explored with *)

SeqsUpTo(S, n) == UNION {[1..k -> S] : k \in 0..n}

Prefix(l, n) == SubSeq(l, 1, IF n < Len(l) THEN n ELSE Len(l))

Healthy == <<>>
Flaky   == <<"http_error">>
Down    == [k \in 1..DefaultMaxRetries |-> "conn_error"]

CountXml(count) == Body("xml", FALSE, <<>>, count, <<>>)
IdsXml(ids)     == Body("xml", FALSE, ids, <<>>, <<>>)
Json(ids, count) == Body("json", TRUE, ids, count, <<>>)
JsonNoResult    == Body("json", FALSE, <<>>, <<>>, <<>>)
Text(text)      == Body("text", FALSE, <<>>, <<>>, text)

\* replies to a count request
CountReplies ==
  {Reply(Down, Garbage), Reply(Healthy, Garbage), Reply(Healthy, CountXml(<<>>)),
   Reply(Flaky, CountXml(<<MaxCount>>))}
  \cup {Reply(Healthy, CountXml(<<c>>)) : c \in 0..MaxCount}

Pmids == {"101", "202"}

\* replies to the identifier search of search_pubmed
SearchReplies ==
  {Reply(Down, Garbage), Reply(Healthy, Garbage), Reply(Healthy, JsonNoResult)}
  \cup {Reply(Healthy, Json(ids, count)) :
          ids \in SeqsUpTo(Pmids, MaxIds), count \in {<<>>, <<MaxCount>>}}
  \cup {Reply(Flaky, Json(ids, <<MaxCount>>)) : ids \in SeqsUpTo(Pmids, 1)}

\* replies to the record fetch of format_paper_details
FetchReplies ==
  {Reply(Down, Garbage), Reply(Healthy, Garbage), Reply(Flaky, IdsXml(<<"101">>))}
  \cup {Reply(Healthy, IdsXml(ids)) : ids \in SeqsUpTo(Pmids, 1)}

Keywords  == <<"asthma", "copd", "cough", "fever">>
Journals  == {<<>>, <<"">>, <<"Nature">>}
SortBys   == {"relevance", "date_desc", "date_asc", "newest"}
CountTerms == {"aspirin", "statin"}

\* MeSH: replies to the identifier search and to the text fetch
MeshSearchReplies ==
  {Reply(Down, Garbage), Reply(Healthy, Garbage), Reply(Healthy, IdsXml(<<>>)),
   Reply(Healthy, IdsXml(<<"68001">>)), Reply(Flaky, IdsXml(<<"68001", "68002">>))}

MeshSample1 ==
  <<"1", ":", " ", "T", "e", "r", "m", " ", "O", "n", "e", "\n",
    "e", "x", "t", "r", "a", " ", "l", "i", "n", "e", "\n",
    "2", ":", " ", "T", "e", "r", "m", " ", "T", "w", "o", "\n">>
MeshSample2 == <<"1", ":", " ", " ", "\n", "2", ":", " ", "A", "\n">>

MeshFetchReplies ==
  {Reply(Down, Garbage), Reply(Healthy, Text(<<>>)),
   Reply(Healthy, Text(MeshSample1)), Reply(Flaky, Text(MeshSample2))}

\* pico_search: the term lists
PTerms == <<"adults", "elderly", "seniors", "aged">>
ITerms == <<"aspirin", "asa", "salicylate", "nsaid">>
PLists == {Prefix(PTerms, n) : n \in 0..MaxTerms}
ILists == {<<>>, Prefix(ITerms, MaxTerms)}
CLists == {<<>>, <<"placebo">>}
OLists == {<<>>, <<"stroke">>}

\* pico_search: the number of count requests the argument lists call for
PicoRequests(c_terms, o_terms) ==
  3 + (IF c_terms # <<>> THEN 2 ELSE 0) + (IF o_terms # <<>> THEN 2 ELSE 0)
    + (IF c_terms # <<>> /\ o_terms # <<>> THEN 1 ELSE 0)

\* pico_search: the count the service reports for the r-th request; the
\* counts of successive requests differ, `seed` shifts them
UpstreamCount(seed, r) == (seed + r) % (MaxCount + 1)

FaultKinds == {"flaky", "down", "garbage", "nocount"}

\* which requests meet a fault, and of what kind: at most MaxFaults of them
FaultMaps(n) ==
  UNION {[F -> FaultKinds] :
           F \in {G \in SUBSET (1..n) : Cardinality(G) <= MaxFaults}}

PicoReply(seed, r, faults) ==
  LET body == CountXml(<<UpstreamCount(seed, r)>>)
  IN  IF r \notin DOMAIN faults THEN Reply(Healthy, body)
      ELSE IF faults[r] = "flaky" THEN Reply(Flaky, body)
      ELSE IF faults[r] = "down" THEN Reply(Down, Garbage)
      ELSE IF faults[r] = "garbage" THEN Reply(Healthy, Garbage)
      ELSE Reply(Healthy, CountXml(<<>>))

PicoEnv(n, seed, faults) == [r \in 1..n |-> PicoReply(seed, r, faults)]

\* MeSH texts for the parser on its own: up to MaxLen chunks
MeshChunks ==
  {<<"1">>, <<":">>, <<" ">>, <<"a">>, <<"\n">>, <<"2", ":", " ", "b">>,
   <<"3", ":", " ", " ">>}

RECURSIVE Flatten(_)
Flatten(chunks) ==
  IF chunks = <<>> THEN <<>> ELSE Head(chunks) \o Flatten(Tail(chunks))

MeshTexts == {Flatten(cs) : cs \in SeqsUpTo(MeshChunks, MaxLen)}

----------------------------------------------------------------------------
(* Actions: one invocation each *)

Finish(name, a, env, r) ==
  /\ pc' = "returned"
  /\ op' = name
  /\ args' = a
  /\ ret' = r.val
  /\ raised' = r.exc
  /\ trace' = r.s.trace
  /\ calls' = r.s.calls
  /\ upstream' = env

AttemptSeqs(n) == [1..n -> AttemptOutcomes]

RetryUrl    == BASE_URL \o "/esearch.fcgi"
RetryParams == [db |-> "pubmed", term |-> "aspirin", retmode |-> "xml"]

Invoke_make_request_with_retry ==
  /\ pc = "idle"
  /\ \E n \in 0..MaxRetries, w \in 1..MaxWait :
       \E att \in AttemptSeqs(n) :
         LET env == <<Reply(att, CountXml(<<MaxCount>>))>>
         IN  \E r \in {make_request_with_retry(Start(env), RetryUrl,
                                                  RetryParams, n, w)} :
               Finish("make_request_with_retry",
                      [max_retries |-> n, wait_time |-> w], env, r)

Invoke_search_pubmed ==
  /\ pc = "idle"
  /\ \E n \in 0..MaxTerms, journal \in Journals, sort_by \in SortBys :
       \E search \in SearchReplies, fetch \in FetchReplies :
         LET keywords == Prefix(Keywords, n)
             env == <<search, fetch>>
         IN  \E r \in {search_pubmed(Start(env), keywords, journal,
                                        DefaultNumResults, sort_by)} :
               Finish("search_pubmed",
                      [keywords |-> keywords, journal |-> journal,
                       num_results |-> DefaultNumResults, sort_by |-> sort_by],
                      env, r)

Invoke_format_paper_details ==
  /\ pc = "idle"
  /\ \E pubmed_ids \in SeqsUpTo(Pmids, MaxIds), fetch \in FetchReplies :
       \E r \in {format_paper_details(Start(<<fetch>>), pubmed_ids)} :
         Finish("format_paper_details", [pubmed_ids |-> pubmed_ids],
                <<fetch>>, r)

Invoke_get_pubmed_count ==
  /\ pc = "idle"
  /\ \E search_terms \in SeqsUpTo(CountTerms, MaxTerms) :
       \E env \in [1..Len(search_terms) -> CountReplies] :
         \E r \in {get_pubmed_count(Start(env), search_terms)} :
           Finish("get_pubmed_count", [search_terms |-> search_terms], env, r)

Invoke_get_mesh_terms ==
  /\ pc = "idle"
  /\ \E search_word \in {"heart", ""} :
       \E search \in MeshSearchReplies, fetch \in MeshFetchReplies :
         \E r \in {get_mesh_terms(Start(<<search, fetch>>), search_word)} :
           Finish("get_mesh_terms", [search_word |-> search_word],
                  <<search, fetch>>, r)

Invoke_pico_search ==
  /\ pc = "idle"
  /\ \E p_terms \in PLists, i_terms \in ILists,
        c_terms \in CLists, o_terms \in OLists :
       \E seed \in 0..MaxCount,
          faults \in FaultMaps(PicoRequests(c_terms, o_terms)) :
         LET env == PicoEnv(PicoRequests(c_terms, o_terms), seed, faults)
         IN  \E r \in {pico_search(Start(env), p_terms, i_terms,
                                      c_terms, o_terms)} :
               Finish("pico_search",
                      [p_terms |-> p_terms, i_terms |-> i_terms,
                       c_terms |-> c_terms, o_terms |-> o_terms],
                      env, r)

\* the parser applied to the text chosen initially
Invoke_parse_mesh_text_response ==
  /\ pc = "idle"
  /\ pc' = "returned"
  /\ op' = "parse_mesh_text_response"
  /\ ret' = PyList(parse_mesh_text_response(args.text))
  /\ UNCHANGED <<args, raised, trace, calls, upstream>>

Idle(a) ==
  /\ pc = "idle"
  /\ op = "none"
  /\ args = a
  /\ ret = None
  /\ raised = NoExc
  /\ trace = <<>>
  /\ calls = 0
  /\ upstream = <<>>

Init == Idle(<<>>)

Next ==
  \/ Invoke_format_paper_details
  \/ Invoke_search_pubmed
  \/ Invoke_get_mesh_terms
  \/ Invoke_get_pubmed_count
  \/ Invoke_pico_search

Spec == Init /\ [][Next]_vars

\* the retrying executor on its own
NextRetry == Invoke_make_request_with_retry

SpecRetry == Init /\ [][NextRetry]_vars

\* the MeSH text parser on its own
InitMesh == \E text \in MeshTexts : Idle([text |-> text])

NextMesh == Invoke_parse_mesh_text_response

SpecMesh == InitMesh /\ [][NextMesh]_vars

----------------------------------------------------------------------------
(* Vocabulary of the properties *)

Done(name) == pc = "returned" /\ op = name

EventPositions(kind) == {i \in 1..Len(trace) : trace[i].ev = kind}

\* the k-th smallest element of a set of positions
Nth(S, k) == CHOOSE i \in S : Cardinality({j \in S : j < i}) = k - 1

Least(S)    == CHOOSE i \in S : \A j \in S : i <= j
Greatest(S) == CHOOSE i \in S : \A j \in S : j <= i

\* the first transport call of each request (a retry follows a sleep)
FirstAttempts ==
  {i \in EventPositions("get") : i = 1 \/ trace[i - 1].ev # "sleep"}

\* the term of each request, in the order the requests were issued
RequestedTerms ==
  [k \in 1..Cardinality(FirstAttempts) |-> trace[Nth(FirstAttempts, k)].params.term]

\* every attempt the default retry budget allows fails
RequestFails(reply) ==
  \A k \in 1..DefaultMaxRetries : transport(reply, k) # "ok"

\* a count request fails: by transport, or by a body with no Count element
CountRequestFails(reply) ==
  RequestFails(reply) \/ reply.body.fmt # "xml" \/ reply.body.count = <<>>

Reversed(l) == [k \in 1..Len(l) |-> l[Len(l) - k + 1]]

RECURSIVE Pow2(_)
Pow2(n) == IF n = 0 THEN 1 ELSE 2 * Pow2(n - 1)

----------------------------------------------------------------------------
\* every attempt of the invocation fails
C1_AllAttemptsFail ==
  \A k \in 1..args.max_retries : upstream[1].att[k] # "ok"

(* C1: make_request_with_retry, max_retries = N >= 1, wait_time = w, every   *)
(* attempt failing: the transport is called exactly N times, there are      *)
(* exactly N-1 sleeps, the k-th sleep lasts w * 2^(k-1) and lies between     *)
(* attempt k and attempt k+1, and the failure of the last attempt is raised *)
(* to the caller.                                                           *)
C1_ExhaustedRetries ==
  (Done("make_request_with_retry") /\ args.max_retries >= 1 /\ C1_AllAttemptsFail)
  => LET N == args.max_retries
         w == args.wait_time
         gets == EventPositions("get")
         sleeps == EventPositions("sleep")
     IN  /\ calls = N
         /\ Cardinality(gets) = N
         /\ Cardinality(sleeps) = N - 1
         /\ \A k \in 1..(N - 1) :
              /\ trace[Nth(sleeps, k)].secs = w * Pow2(k - 1)
              /\ Nth(gets, k) < Nth(sleeps, k)
              /\ Nth(sleeps, k) < Nth(gets, k + 1)
         /\ raised = RequestException(upstream[1].att[N])
         /\ ret = None

\* three failing attempts with wait 1: three calls, sleeps of 1 then 2
C1_Witness ==
  /\ Done("make_request_with_retry")
  /\ args = [max_retries |-> 3, wait_time |-> 1]
  /\ C1_AllAttemptsFail
  /\ calls = 3
  /\ [k \in 1..2 |-> trace[Nth(EventPositions("sleep"), k)].secs] = <<1, 2>>
  /\ raised # NoExc

(* C2: make_request_with_retry, max_retries >= 1: the number of transport   *)
(* calls is the index of the first successful attempt, or max_retries when  *)
(* none succeeds; on success that response is returned, nothing is raised,  *)
(* and the successful call is the last event: no later call and no later    *)
(* sleep.  A response is returned only then.                                *)
C2_NoRetryAfterSuccess ==
  (Done("make_request_with_retry") /\ args.max_retries >= 1)
  => LET N == args.max_retries
         oks == {k \in 1..N : upstream[1].att[k] = "ok"}
     IN  IF oks = {}
         THEN calls = N /\ ret = None
         ELSE /\ calls = Least(oks)
              /\ Cardinality(EventPositions("get")) = Least(oks)
              /\ Cardinality(EventPositions("sleep")) = Least(oks) - 1
              /\ trace[Len(trace)].ev = "get"
              /\ ret = PyResponse(upstream[1].body)
              /\ raised = NoExc

\* the second of three attempts succeeds: two calls, the response returned
C2_Witness ==
  /\ Done("make_request_with_retry")
  /\ args.max_retries = 3
  /\ upstream[1].att = <<"http_error", "ok", "conn_error">>
  /\ calls = 2
  /\ ret.type = "response"

\* the steps of search_pubmed that the replies make fail
C3_SearchStepFails ==
  RequestFails(upstream[1]) \/ upstream[1].body.fmt # "json"

C3_FetchStepFails ==
  /\ ~C3_SearchStepFails
  /\ upstream[1].body.hasResult
  /\ upstream[1].body.ids # <<>>
  /\ (RequestFails(upstream[2]) \/ upstream[2].body.fmt # "xml")

(* C3: search_pubmed reports success only when every step succeeded: when   *)
(* the identifier search fails (retries exhausted, or a body that does not  *)
(* decode) or the record fetch that was issued fails (retries exhausted, or *)
(* XML that does not parse), the result is success = false with an error    *)
(* and an empty result list.                                                *)
C3_FailureIsReported ==
  (/\ Done("search_pubmed")
   /\ search_query(args.keywords, args.journal) # ""
   /\ (C3_SearchStepFails \/ C3_FetchStepFails))
  => /\ ret.type = "dict"
     /\ ret.value.success = FALSE
     /\ "error" \in DOMAIN ret.value
     /\ ret.value.results = <<>>

(* C4: pico_search with non-empty P and I: when any count request fails (by *)
(* transport after the retries, or by a response with no Count element) the *)
(* result is success = false with an error and empty results.               *)
C4_FailedCountIsReported ==
  (/\ Done("pico_search")
   /\ args.p_terms # <<>> /\ args.i_terms # <<>>
   /\ \E r \in 1..Len(upstream) : CountRequestFails(upstream[r]))
  => /\ ret.type = "dict"
     /\ ret.value.success = FALSE
     /\ "error" \in DOMAIN ret.value
     /\ DOMAIN ret.value.results = {}

(* C5: validation comes before any network call: search_pubmed with empty   *)
(* keywords and an empty or absent journal returns the "no search           *)
(* parameters" failure, pico_search with an empty P or an empty I list      *)
(* returns the "at least P and I" failure, and in both cases no transport   *)
(* call was made, whatever C and O hold.                                    *)
C5_ValidationBeforeNetwork ==
  /\ (Done("search_pubmed") /\ args.keywords = <<>>
        /\ args.journal \in {<<>>, <<"">>})
     => /\ ret = PyDict([success |-> FALSE,
                         error |-> "No search parameters provided. Please specify keywords or journal.",
                         results |-> <<>>])
        /\ calls = 0
        /\ EventPositions("get") = {}
  /\ (Done("pico_search") /\ (args.p_terms = <<>> \/ args.i_terms = <<>>))
     => /\ ret = PyDict([success |-> FALSE,
                         error |-> "At least P (Population) and I (Intervention) terms are required with multiple synonyms recommended.",
                         results |-> EmptyDict])
        /\ calls = 0
        /\ EventPositions("get") = {}

\* pico_search refused for an empty P while C and O are given
C5_Witness ==
  /\ Done("pico_search")
  /\ args.p_terms = <<>> /\ args.i_terms # <<>>
  /\ args.c_terms # <<>> /\ args.o_terms # <<>>
  /\ ret.value.success = FALSE
  /\ calls = 0

\* the combinations the argument lists call for
C6_Keys ==
  {"P_AND_I"}
  \cup (IF args.c_terms # <<>> THEN {"P_AND_I_AND_C"} ELSE {})
  \cup (IF args.o_terms # <<>> THEN {"P_AND_I_AND_O"} ELSE {})
  \cup (IF args.c_terms # <<>> /\ args.o_terms # <<>>
        THEN {"P_AND_I_AND_C_AND_O"} ELSE {})

C6_KeyOrder ==
  <<"P_AND_I", "P_AND_I_AND_C", "P_AND_I_AND_O", "P_AND_I_AND_C_AND_O">>

(* C6: pico_search with non-empty P and I and every request succeeding: the *)
(* keys of results.combinations are P_AND_I, plus P_AND_I_AND_C iff C is    *)
(* non-empty, plus P_AND_I_AND_O iff O is non-empty, plus                   *)
(* P_AND_I_AND_C_AND_O iff both are; each combination query is the element  *)
(* queries joined by " AND " in the order P, I, C, O; and the requests      *)
(* issued are the individual element requests followed by exactly one       *)
(* request per combination of that key set, in that order.                  *)
C6_Combinations ==
  (/\ Done("pico_search")
   /\ args.p_terms # <<>> /\ args.i_terms # <<>>
   /\ \A r \in 1..Len(upstream) : ~CountRequestFails(upstream[r]))
  => LET individual == ret.value.results.individual
         combinations == ret.value.results.combinations
         P == individual.P.query
         I == individual.I.query
         C == IF args.c_terms # <<>> THEN individual.C.query ELSE ""
         O == IF args.o_terms # <<>> THEN individual.O.query ELSE ""
         query == [key \in {C6_KeyOrder[k] : k \in 1..4} |->
                     IF key = "P_AND_I" THEN P \o " AND " \o I
                     ELSE IF key = "P_AND_I_AND_C"
                     THEN P \o " AND " \o I \o " AND " \o C
                     ELSE IF key = "P_AND_I_AND_O"
                     THEN P \o " AND " \o I \o " AND " \o O
                     ELSE P \o " AND " \o I \o " AND " \o C \o " AND " \o O]
         InKeys(key) == key \in C6_Keys
         applicable == SelectSeq(C6_KeyOrder, InKeys)
         elements == <<P, I>>
                       \o (IF args.c_terms # <<>> THEN <<C>> ELSE <<>>)
                       \o (IF args.o_terms # <<>> THEN <<O>> ELSE <<>>)
     IN  /\ ret.value.success = TRUE
         /\ DOMAIN combinations = C6_Keys
         /\ \A key \in C6_Keys : combinations[key].query = query[key]
         /\ RequestedTerms =
              elements \o [k \in 1..Len(applicable) |-> query[applicable[k]]]

\* P, I and O given, C empty: exactly P_AND_I and P_AND_I_AND_O
C6_Witness ==
  /\ Done("pico_search")
  /\ args.p_terms # <<>> /\ args.i_terms # <<>>
  /\ args.c_terms = <<>> /\ args.o_terms # <<>>
  /\ \A r \in 1..Len(upstream) : ~CountRequestFails(upstream[r])
  /\ ret.value.success = TRUE
  /\ DOMAIN ret.value.results.combinations = {"P_AND_I", "P_AND_I_AND_O"}
  /\ Cardinality(FirstAttempts) = 5

\* the except clause of a tool ran
C7_ExceptClauseRan ==
  \E i \in EventPositions("log") :
    /\ trace[i].level = "error"
    /\ trace[i].text \in {"Error in search_pubmed: ", "Error in get_mesh_terms: ",
                          "Error in get_pubmed_count: ",
                          "Error in format_paper_details: ",
                          "Error in pico_search: "}

(* C7: every exposed operation returns, without raising, a mapping with a   *)
(* success field, and success is false whenever one of its internal request *)
(* or parse steps failed (an except clause of a tool ran).                  *)
C7_SuccessFieldEncodesOutcome ==
  pc = "returned"
  => /\ raised = NoExc
     /\ ret.type = "dict"
     /\ "success" \in DOMAIN ret.value
     /\ (C7_ExceptClauseRan => ret.value.success = FALSE)

\* the identifier list of the search reply, and the requests by endpoint
C8_UpstreamIds ==
  IF upstream[1].body.hasResult THEN upstream[1].body.ids ELSE <<>>

C8_Searches ==
  {i \in EventPositions("get") : trace[i].url = BASE_URL \o "/esearch.fcgi"}

C8_Fetches ==
  {i \in EventPositions("get") : trace[i].url = BASE_URL \o "/efetch.fcgi"}

(* C8: search_pubmed: for sort_by "date_desc" and "date_asc" the search     *)
(* request carries sort = "pub date"; for "relevance" and any other value   *)
(* it carries no sort parameter; the identifier list handed to the record   *)
(* fetch is the upstream list reversed iff sort_by = "date_asc", and in     *)
(* upstream order otherwise.                                                *)
C8_SortHandling ==
  (Done("search_pubmed") /\ EventPositions("get") # {})
  => /\ \A i \in C8_Searches :
          IF args.sort_by \in {"date_desc", "date_asc"}
          THEN "sort" \in DOMAIN trace[i].params
                 /\ trace[i].params.sort = "pub date"
          ELSE "sort" \notin DOMAIN trace[i].params
     /\ (~C3_SearchStepFails /\ C8_UpstreamIds # <<>>) => C8_Fetches # {}
     /\ \A i \in C8_Fetches :
          trace[i].params.id =
            join(",", IF args.sort_by = "date_asc"
                      THEN Reversed(C8_UpstreamIds) ELSE C8_UpstreamIds)

\* oldest first: the two identifiers are fetched in reverse
C8_Witness ==
  /\ Done("search_pubmed")
  /\ args.sort_by = "date_asc"
  /\ ~C3_SearchStepFails
  /\ C8_UpstreamIds = <<"101", "202">>
  /\ \E i \in C8_Fetches : trace[i].params.id = "202,101"
  /\ \A i \in C8_Searches : trace[i].params.sort = "pub date"

\* render(L): the lines "k: L[k]", each followed by a newline
C9_DigitChar(d) == <<"0", "1", "2", "3", "4", "5", "6", "7", "8", "9">>[d + 1]

RECURSIVE C9_Decimal(_)
C9_Decimal(n) ==
  IF n < 10 THEN <<C9_DigitChar(n)>>
  ELSE C9_Decimal(n \div 10) \o <<C9_DigitChar(n % 10)>>

RECURSIVE C9_RenderFrom(_, _)
C9_RenderFrom(L, k) ==
  IF k > Len(L) THEN <<>>
  ELSE C9_Decimal(k) \o <<":", " ">> \o L[k] \o <<"\n">> \o C9_RenderFrom(L, k + 1)

C9_Render(L) == C9_RenderFrom(L, 1)

C9_NonEmpty(entry) == entry # <<>>

(* C9: parse_mesh_text_response is round-trip stable: with L the entries    *)
(* parsed from any text and render(L) the lines "k: L[k]" for k = 1..len(L),*)
(* each followed by a newline, parsing render(L) gives L again, also when   *)
(* an entry of L is empty.                                                  *)
C9_RoundTrip ==
  Done("parse_mesh_text_response")
  => parse_mesh_text_response(C9_Render(ret.items)) = ret.items

(* C9 as amended: parsing render(L) gives L without its empty entries; it   *)
(* gives L itself when no entry of L is empty.                              *)
C9_RoundTripDropsEmpty ==
  Done("parse_mesh_text_response")
  => parse_mesh_text_response(C9_Render(ret.items))
       = SelectSeq(ret.items, C9_NonEmpty)

\* a parse that yields an empty entry followed by a non-empty one
C9_Witness ==
  /\ Done("parse_mesh_text_response")
  /\ ret.items = << <<>>, <<"b">> >>

(* C10: get_pubmed_count over a non-empty list: requests are issued one per *)
(* element in list order; when the request or the count extraction for the *)
(* term at position k fails, no request is issued for a later term and the  *)
(* result is success = false with empty counts; when all succeed, counts    *)
(* has one entry per distinct term, keyed by the term, holding the count of *)
(* the last response for that term, and a repeated term is requested again. *)
C10_AllOrNothing ==
  (Done("get_pubmed_count") /\ args.search_terms # <<>>)
  => LET terms == args.search_terms
         failing == {k \in 1..Len(terms) : CountRequestFails(upstream[k])}
     IN  IF failing # {}
         THEN /\ RequestedTerms = SubSeq(terms, 1, Least(failing))
              /\ ret.value.success = FALSE
              /\ "error" \in DOMAIN ret.value
              /\ DOMAIN ret.value.counts = {}
         ELSE /\ RequestedTerms = terms
              /\ ret.value.success = TRUE
              /\ DOMAIN ret.value.counts = {terms[k] : k \in 1..Len(terms)}
              /\ \A t \in DOMAIN ret.value.counts :
                   ret.value.counts[t] =
                     upstream[Greatest({k \in 1..Len(terms) : terms[k] = t})].body.count[1]

\* the same term twice, answered MaxCount and then 0: two requests, 0 kept
C10_Witness ==
  /\ Done("get_pubmed_count")
  /\ args.search_terms = <<"aspirin", "aspirin">>
  /\ upstream[1] = Reply(Healthy, CountXml(<<MaxCount>>))
  /\ upstream[2] = Reply(Healthy, CountXml(<<0>>))
  /\ calls = 2
  /\ ret.value.success = TRUE
  /\ ret.value.counts["aspirin"] = 0

====
